---- MODULE Spec2Model ----
(***************************************************************************)
(* xtrk::sten -- least-significant-bit embedding of a length-prefixed,     *)
(* CRC-32 checksummed frame into a byte container, and its extraction.     *)
(*                                                                         *)
(* Number representation.  A u32 or a wider integer does not fit the       *)
(* integers of the model checker.  A u32 of the code (the running CRC,     *)
(* payload_size) is held as the set of the positions of its one bits.  An  *)
(* integer VALUE that is embedded is held as its base-65536 digits, most   *)
(* significant first (the leading digit of a signed integer is signed);    *)
(* an 8- or 16-bit value is one such digit.  Bytes are integers 0..255; a  *)
(* Vec<u8> is a sequence of bytes; a String is a sequence of Unicode       *)
(* scalar values.                                                          *)
(***************************************************************************)
EXTENDS Integers, Sequences, FiniteSets, TLC

(***************************************************************************)
(* Bits and bytes                                                          *)
(***************************************************************************)
RECURSIVE Pow2(_)
Pow2(n) == IF n = 0 THEN 1 ELSE 2 * Pow2(n - 1)

\* (b >> i) & 1
Bit(b, i) == (b \div Pow2(i)) % 2

\* a u32 is the set of the positions (0..31) of its one bits
U32Zero == {}

\* !x
U32Not(x) == (0..31) \ x

\* x ^ y
U32Xor(x, y) == (x \ y) \cup (y \ x)

\* x >> 1
U32Shr1(x) == {i - 1 : i \in x \ {0}}

\* byte as u32
U32OfByte(b) == {i \in 0..7 : Bit(b, i) = 1}

\* the byte made of bits from..from+7 of x
RECURSIVE ByteAt(_, _, _)
ByteAt(x, from, i) ==
    IF i > 7 THEN 0
    ELSE (IF from + i \in x THEN 1 ELSE 0) + 2 * ByteAt(x, from, i + 1)

\* x.to_le_bytes()
U32ToLeBytes(x) ==
    <<ByteAt(x, 0, 0), ByteAt(x, 8, 0), ByteAt(x, 16, 0), ByteAt(x, 24, 0)>>

\* u32::from_le_bytes(bs)
U32FromLeBytes(bs) == {i \in 0..31 : Bit(bs[(i \div 8) + 1], i % 8) = 1}

\* x as an integer, for x below 2^31
RECURSIVE U32ToNat(_, _)
U32ToNat(x, i) ==
    IF i > 30 THEN 0
    ELSE (IF i \in x THEN 1 ELSE 0) + 2 * U32ToNat(x, i + 1)

\* (n as u32).to_le_bytes() for a length n (a usize below 2^31 here; the
\* division drops whatever lies above the fourth byte)
LenToLeBytes(n) ==
    <<n % 256, (n \div 256) % 256, (n \div 65536) % 256, (n \div 16777216) % 256>>

(***************************************************************************)
(* get_crc: bit-reflected CRC-32, polynomial 0xedb88320                    *)
(***************************************************************************)
\* 0xedb88320
Poly == {5, 8, 9, 15, 19, 20, 21, 23, 24, 26, 27, 29, 30, 31}

\* n passes of the inner loop: mask = (crc & 1) * poly, which is poly when
\* the low bit is set and 0 otherwise; crc = (crc >> 1) ^ mask
RECURSIVE CrcRounds(_, _)
CrcRounds(crc, n) ==
    IF n = 0 THEN crc
    ELSE IF 0 \in crc
         THEN CrcRounds(U32Xor(U32Shr1(crc), Poly), n - 1)
         ELSE CrcRounds(U32Xor(U32Shr1(crc), U32Zero), n - 1)

\* the loop over the data, from position k on
RECURSIVE CrcBytes(_, _, _)
CrcBytes(crc, data, k) ==
    IF k > Len(data) THEN crc
    ELSE CrcBytes(CrcRounds(U32Xor(crc, U32OfByte(data[k])), 8), data, k + 1)

get_crc(crc, data) == U32Not(CrcBytes(U32Not(crc), data, 1))

(***************************************************************************)
(* Option<T> of the standard library, and the outcomes of a call           *)
(***************************************************************************)
None == [some |-> FALSE]
Some(x) == [some |-> TRUE, val |-> x]

Ok(x) == [kind |-> "Ok", val |-> x]
Err(e) == [kind |-> "Err", err |-> e]
PayloadTooLarge(actual, max) ==
    [kind |-> "Err", err |-> "PayloadTooLarge", actual |-> actual, max |-> max]
\* the call does not return: an index or slice bound out of range, or an
\* arithmetic overflow, unwinds
Panic == [kind |-> "Panic"]

(***************************************************************************)
(* The types with a Stenable / Destenable implementation that are modelled *)
(***************************************************************************)
NarrowInts == {"u8", "u16", "i8", "i16"}
WideInts == {"u32", "u64", "i32", "i64"}
IntTypes == NarrowInts \cup WideInts
BaseTypes == {"VecU8", "String"} \cup IntTypes
OptionTypes == {"Option<VecU8>", "Option<String>", "Option<u8>", "Option<u32>"}
Types == BaseTypes \cup OptionTypes

\* T of Option<T>
Inner(t) ==
    CASE t = "Option<VecU8>" -> "VecU8"
      [] t = "Option<String>" -> "String"
      [] t = "Option<u8>" -> "u8"
      [] t = "Option<u32>" -> "u32"

\* size_of::<T>() of an integer type
Width(t) ==
    CASE t \in {"u8", "i8"} -> 1
      [] t \in {"u16", "i16"} -> 2
      [] t \in {"u32", "i32"} -> 4
      [] t \in {"u64", "i64"} -> 8

Signed(t) == t \in {"i8", "i16", "i32", "i64"}

(***************************************************************************)
(* to_le_bytes / from_le_bytes                                             *)
(***************************************************************************)
\* a 16-bit digit as the unsigned 16 bits that hold it (two's complement
\* when the digit is the signed leading one)
Wrap16(d) == (d + 65536) % 65536

\* to_le_bytes of u8/u16/i8/i16: the one digit ds[1]
NarrowToLe(t, ds) ==
    IF Width(t) = 1 THEN <<(ds[1] + 256) % 256>>
    ELSE <<Wrap16(ds[1]) % 256, Wrap16(ds[1]) \div 256>>

\* to_le_bytes of u32/u64/i32/i64: base-65536 digits ds, most significant
\* first (the leading one signed for i32/i64)
WideToLe(t, ds) ==
    LET k == Len(ds)
    IN  [b \in 1..(2 * k) |->
            LET d == Wrap16(ds[k - ((b - 1) \div 2)])
            IN  IF b % 2 = 1 THEN d % 256 ELSE d \div 256]

\* from_le_bytes of a [u8; 1] or [u8; 2]
NarrowFromLe(t, bs) ==
    LET u == IF Width(t) = 1 THEN bs[1] ELSE bs[1] + 256 * bs[2]
        half == IF Width(t) = 1 THEN 128 ELSE 32768
    IN  IF Signed(t) /\ u >= half THEN <<u - 2 * half>> ELSE <<u>>

\* from_le_bytes that reads every digit as unsigned
WideFromLeUnsigned(t, bs) ==
    LET k == Width(t) \div 2
    IN  [j \in 1..k |-> bs[2 * (k - j) + 1] + 256 * bs[2 * (k - j) + 2]]

\* from_le_bytes of a [u8; 4] or [u8; 8]
WideFromLe(t, bs) ==
    LET k == Width(t) \div 2
    IN  [j \in 1..k |->
            LET u == bs[2 * (k - j) + 1] + 256 * bs[2 * (k - j) + 2]
            IN  IF Signed(t) /\ j = 1 /\ u >= 32768 THEN u - 65536 ELSE u]

(***************************************************************************)
(* String::into_bytes / String::from_utf8                                  *)
(***************************************************************************)
\* the UTF-8 encoding of one Unicode scalar value
EncodeChar(c) ==
    IF c < 128 THEN <<c>>
    ELSE IF c < 2048 THEN <<192 + (c \div 64), 128 + (c % 64)>>
    ELSE IF c < 65536 THEN
        <<224 + (c \div 4096), 128 + ((c \div 64) % 64), 128 + (c % 64)>>
    ELSE <<240 + (c \div 262144), 128 + ((c \div 4096) % 64),
           128 + ((c \div 64) % 64), 128 + (c % 64)>>

RECURSIVE EncodeUtf8(_)
EncodeUtf8(chars) ==
    IF chars = <<>> THEN <<>>
    ELSE EncodeChar(Head(chars)) \o EncodeUtf8(Tail(chars))

Cont(b) == b >= 128 /\ b <= 191

\* the length of the well-formed sequence that starts at data[k], 0 if none
\* (the table of well-formed UTF-8 byte sequences: no overlong forms, no
\* surrogates, nothing above U+10FFFF)
SeqLenAt(data, k) ==
    LET n == Len(data)
        b0 == data[k]
        b1 == IF k + 1 <= n THEN data[k + 1] ELSE 0
        c2 == k + 2 <= n /\ Cont(data[k + 2])
        c3 == k + 3 <= n /\ Cont(data[k + 3])
    IN  IF b0 < 128 THEN 1
        ELSE IF b0 >= 194 /\ b0 <= 223 THEN (IF Cont(b1) THEN 2 ELSE 0)
        ELSE IF b0 = 224 THEN (IF b1 >= 160 /\ b1 <= 191 /\ c2 THEN 3 ELSE 0)
        ELSE IF b0 = 237 THEN (IF b1 >= 128 /\ b1 <= 159 /\ c2 THEN 3 ELSE 0)
        ELSE IF b0 >= 225 /\ b0 <= 239 THEN (IF Cont(b1) /\ c2 THEN 3 ELSE 0)
        ELSE IF b0 = 240 THEN
            (IF b1 >= 144 /\ b1 <= 191 /\ c2 /\ c3 THEN 4 ELSE 0)
        ELSE IF b0 >= 241 /\ b0 <= 243 THEN
            (IF Cont(b1) /\ c2 /\ c3 THEN 4 ELSE 0)
        ELSE IF b0 = 244 THEN
            (IF b1 >= 128 /\ b1 <= 143 /\ c2 /\ c3 THEN 4 ELSE 0)
        ELSE 0

\* the scalar value of the well-formed sequence of length m at data[k]
DecodeChar(data, k, m) ==
    CASE m = 1 -> data[k]
      [] m = 2 -> (data[k] - 192) * 64 + (data[k + 1] - 128)
      [] m = 3 -> (data[k] - 224) * 4096 + (data[k + 1] - 128) * 64
                  + (data[k + 2] - 128)
      [] m = 4 -> (data[k] - 240) * 262144 + (data[k + 1] - 128) * 4096
                  + (data[k + 2] - 128) * 64 + (data[k + 3] - 128)

\* String::from_utf8(data).ok(), from position k on
RECURSIVE DecodeUtf8(_, _)
DecodeUtf8(data, k) ==
    IF k > Len(data) THEN Some(<<>>)
    ELSE LET m == SeqLenAt(data, k)
         IN  IF m = 0 THEN None
             ELSE LET rest == DecodeUtf8(data, k + m)
                  IN  IF rest.some
                      THEN Some(<<DecodeChar(data, k, m)>> \o rest.val)
                      ELSE None

(***************************************************************************)
(* Stenable::get_raw_bytes and Destenable::from_raw_bytes, per type        *)
(***************************************************************************)
\* get_raw_bytes of a value x of type t
RECURSIVE get_raw_bytes(_, _)
get_raw_bytes(t, x) ==
    CASE t = "VecU8" -> x
      [] t = "String" -> EncodeUtf8(x)
      [] t = "u8" -> <<x[1]>>
      [] t \in NarrowInts \ {"u8"} -> NarrowToLe(t, x)
      [] t \in WideInts -> WideToLe(t, x)
      [] t \in OptionTypes ->
            IF x.some THEN get_raw_bytes(Inner(t), x.val) ELSE <<>>

\* a conversion that takes the first bytes of a longer input
TryIntoFromLePrefix(t, data) ==
    IF Len(data) < Width(t) THEN None
    ELSE IF t \in WideInts THEN Some(WideFromLe(t, data))
    ELSE Some(NarrowFromLe(t, data))

\* data.try_into().map(T::from_le_bytes).ok()
TryIntoFromLe(t, data) ==
    IF Len(data) # Width(t) THEN None
    ELSE IF t \in WideInts THEN Some(WideFromLe(t, data))
    ELSE Some(NarrowFromLe(t, data))

\* <u8 as Destenable>::from_raw_bytes: data.first().copied()
U8FromRawBytes(data) == IF data = <<>> THEN None ELSE Some(<<data[1]>>)

\* T::from_raw_bytes(data) : Option<T>
RECURSIVE from_raw_bytes(_, _)
from_raw_bytes(t, data) ==
    CASE t = "VecU8" -> Some(data)
      [] t = "String" -> DecodeUtf8(data, 1)
      [] t = "u8" -> U8FromRawBytes(data)
      [] t \in IntTypes \ {"u8"} -> TryIntoFromLe(t, data)
      [] t \in OptionTypes ->
            LET r == from_raw_bytes(Inner(t), data)
            IN  IF r.some THEN Some(Some(r.val)) ELSE None

(***************************************************************************)
(* Stenable::sten                                                          *)
(***************************************************************************)
\* a frame whose size field counts the payload without its checksum
FrameSizeOfPayload(payload) ==
    LET crc == U32ToLeBytes(get_crc(U32Zero, payload))
    IN  LenToLeBytes(Len(payload)) \o payload \o crc

\* payload ++ crc, with the payload size prepended: new_payload
Frame(payload) ==
    LET crc == U32ToLeBytes(get_crc(U32Zero, payload))
        with_crc == payload \o crc
    IN  LenToLeBytes(Len(with_crc)) \o with_crc

\* container[pos] = payload_bit: the other seven bits are lost
SetLsbOverwrite(byte, payload_bit) == payload_bit

\* container[pos] |= payload_bit, the last bit not cleared first
SetLsbNoClear(byte, payload_bit) ==
    IF byte % 2 = 1 THEN byte ELSE byte + payload_bit

\* container[pos] &= 0xFE; container[pos] |= payload_bit
SetLsb(byte, payload_bit) == (byte - (byte % 2)) + payload_bit

\* the two nested loops: bit payload_bit_pos of each byte of new_payload goes,
\* in order, to the next container byte
WriteBits(container, new_payload) ==
    [pos \in 1..Len(container) |->
        IF pos <= 8 * Len(new_payload)
        THEN SetLsb(container[pos],
                    Bit(new_payload[((pos - 1) \div 8) + 1], (pos - 1) % 8))
        ELSE container[pos]]

\* the size check off by one: new_payload_size >= max_size
TooLargeOffByOne(new_payload_size, max_size) == new_payload_size >= max_size

\* the size check: new_payload_size > max_size
TooLarge(new_payload_size, max_size) == new_payload_size > max_size

\* a sten that writes the bytes that fit before it checks the size
stenWriteFirst(t, x, container) ==
    LET new_payload == Frame(get_raw_bytes(t, x))
        max_size == Len(container) \div 8
        new_payload_size == Len(new_payload)
    IN  IF TooLarge(new_payload_size, max_size)
        THEN [result |-> PayloadTooLarge(new_payload_size, max_size),
              container |-> WriteBits(container, SubSeq(new_payload, 1, max_size))]
        ELSE [result |-> Ok(<<>>),
              container |-> WriteBits(container, new_payload)]

\* x.sten(&mut container) for x of type t: the result and the container after
sten(t, x, container) ==
    LET new_payload == Frame(get_raw_bytes(t, x))
        max_size == Len(container) \div 8
        new_payload_size == Len(new_payload)
    IN  IF TooLarge(new_payload_size, max_size)
        THEN [result |-> PayloadTooLarge(new_payload_size, max_size),
              container |-> container]
        ELSE [result |-> Ok(<<>>),
              container |-> WriteBits(container, new_payload)]

(***************************************************************************)
(* Destenable::desten                                                      *)
(***************************************************************************)
\* the length field is carried by the first 32 container bytes
LenFieldBits == 32

\* the checksum is 4 bytes
CrcBytesLen == 4

\* payload_size: bit i of it is the last bit of the i-th of the first 32
\* container bytes; a u32 held in a usize
PayloadSize(container) == {i \in 0..(LenFieldBits - 1) : container[i + 1] % 2 = 1}

\* whether container[32..32 + payload_size * 8] is within a container of
\* length len, that is payload_size <= (len - 32) / 8 (usize is 64 bits
\* wide: neither the product nor the sum wraps); a u32 with bit 31 set is
\* above every len of the model
SliceInRange(payload_size, len) ==
    /\ 31 \notin payload_size
    /\ U32ToNat(payload_size, 0) <= (len - LenFieldBits) \div 8

\* the read loop: every 8 container bytes from position 32 on give one byte
ReadBytes(container, n) ==
    [j \in 1..n |->
        LET at(b) == container[LenFieldBits + 8 * (j - 1) + b + 1] % 2
        IN  at(0) + 2 * at(1) + 4 * at(2) + 8 * at(3)
            + 16 * at(4) + 32 * at(5) + 64 * at(6) + 128 * at(7)]

\* a comparison of the low bytes of the two checksums alone
ChecksumFailsLowByte(expected, actual) ==
    (expected \cap (0..7)) # (actual \cap (0..7))

\* expected != actual
ChecksumFails(expected, actual) == expected # actual

\* <T>::desten(&container) for T = t
desten(t, container) ==
    IF Len(container) < LenFieldBits THEN Err("BadPayload")
    ELSE LET payload_size == PayloadSize(container)
         IN  IF ~SliceInRange(payload_size, Len(container)) THEN Panic
             ELSE LET n == U32ToNat(payload_size, 0)
                      payload_with_checksum == ReadBytes(container, n)
                  IN  IF n < CrcBytesLen THEN Panic
                      ELSE LET payload ==
                                   SubSeq(payload_with_checksum, 1, n - CrcBytesLen)
                               expected ==
                                   U32FromLeBytes(SubSeq(payload_with_checksum,
                                                         n - CrcBytesLen + 1, n))
                               actual == get_crc(U32Zero, payload)
                               p == from_raw_bytes(t, payload)
                           IN  IF ChecksumFails(expected, actual)
                               THEN Err("FailedChecksum")
                               ELSE IF p.some THEN Ok(p.val)
                               ELSE Err("FailedParsing")

(***************************************************************************)
(* Inputs                                                                  *)
(***************************************************************************)
\* longest Vec<u8> drawn from ByteSample
MaxLen == 2
\* longest String drawn from CharSample
MaxStrLen == 1
\* most sten calls in a run of SeqSpec
MaxCalls == 3

ByteSample == {13, 255}
\* one scalar value for each UTF-8 length: 'A', U+00E9, U+20AC, U+1F600
CharSample == {65, 233, 8364, 128512}

SeqsUpTo(S, n) == UNION {[1..k -> S] : k \in 0..n}

Val(t, x) == [type |-> t, val |-> x]

\* with vec![1, 3, 5, 7, 9] and b"123456789".to_vec()
VecValues ==
    {Val("VecU8", x) :
        x \in SeqsUpTo(ByteSample, MaxLen)
              \cup {<<1, 3, 5, 7, 9>>, <<49, 50, 51, 52, 53, 54, 55, 56, 57>>}}
StringValues == {Val("String", x) : x \in SeqsUpTo(CharSample, MaxStrLen)}
IntValues ==
    {Val("u8", <<x>>) : x \in {0, 100, 255}}
    \cup {Val("u16", <<x>>) : x \in {1234, 65535}}
    \cup {Val("i8", <<x>>) : x \in {-128, -1, 100}}
    \cup {Val("i16", <<x>>) : x \in {-1234, 1234}}
    \* 0x89ABCDEF, 0
    \cup {Val("u32", x) : x \in {<<35243, 52719>>, <<0, 0>>}}
    \* 0x19ABCDEF, i32::MIN
    \cup {Val("i32", x) : x \in {<<6571, 52719>>, <<-32768, 0>>}}
    \* 0x1234567890ABCDEF
    \cup {Val("u64", x) : x \in {<<4660, 22136, 37035, 52719>>}}
    \* 0x1234567890ABCDEF, -2
    \cup {Val("i64", x) : x \in {<<4660, 22136, 37035, 52719>>,
                                 <<-1, 65535, 65535, 65534>>}}
\* the values of the types that are not Option<T>
Values == VecValues \cup StringValues \cup IntValues
\* None and Some(x) of each Option<T>
OptionValues ==
    {Val(t, None) : t \in OptionTypes}
    \cup {Val("Option<VecU8>", Some(<<>>)), Val("Option<VecU8>", Some(<<255>>)),
          Val("Option<String>", Some(<<>>)), Val("Option<u8>", Some(<<100>>)),
          Val("Option<u32>", Some(<<35243, 52719>>))}

\* the values of the runs of several calls: frames of 8, 9, 10 and 13 bytes
SeqValues ==
    {Val("VecU8", <<>>), Val("VecU8", <<255>>), Val("u16", <<1234>>),
     Val("VecU8", <<1, 3, 5, 7, 9>>)}

\* container lengths: below the length field; room for 10 and for 17 frame
\* bytes, neither a multiple of 8
CarrierLens == {31, 87, 143}
FillSample == {13, 254}

\* vec![fill; len]
Filled(len, fill) == [i \in 1..len |-> fill]

\* a container whose first 32 bytes carry n (below 2^16) as a length field
\* that no sten call wrote
Foreign(len, fill, n) ==
    [i \in 1..len |->
        IF i <= 16 THEN SetLsb(fill, Bit(n, i - 1))
        ELSE IF i <= LenFieldBits THEN SetLsb(fill, 0)
        ELSE fill]

ForeignSizes == {0, 1, 3, 4, 5, 7, 13}

InitContainers ==
    {Filled(len, fill) : len \in CarrierLens, fill \in FillSample}
    \cup {Foreign(87, 254, n) : n \in ForeignSizes}

(***************************************************************************)
(* State                                                                   *)
(***************************************************************************)
VARIABLES
    container,   \* the bytes of the Container
    stenCall,    \* the last sten call: its value and result, if any
    destenCall,  \* the last desten call on the container as it is now, if any
    embedded,    \* the value of the last sten call that returned Ok, if any
    longest,     \* the longest frame a sten call has written
    calls,       \* the number of sten calls made
    flipped      \* the container position whose last bit was flipped, or 0

vars == <<container, stenCall, destenCall, embedded, longest, calls, flipped>>

\* new_payload.len() for the value v: the size, the payload, the checksum
FrameLen(v) == 4 + Len(get_raw_bytes(v.type, v.val)) + 4

InitWith(containers) ==
    /\ container \in containers
    /\ stenCall = None
    /\ destenCall = None
    /\ embedded = None
    /\ longest = 0
    /\ calls = 0
    /\ flipped = 0

\* v.sten(&mut container)
StenCall(v) ==
    LET r == sten(v.type, v.val, container)
    IN  /\ container' = r.container
        /\ stenCall' = Some([type |-> v.type, val |-> v.val, result |-> r.result])
        /\ destenCall' = None
        /\ embedded' = IF r.result.kind = "Ok" THEN Some(v) ELSE embedded
        /\ longest' = IF r.result.kind = "Ok" /\ FrameLen(v) > longest
                      THEN FrameLen(v) ELSE longest
        /\ calls' = calls + 1
        /\ flipped' = 0

\* <T>::desten(&container); it reads the container and leaves it as it is,
\* so one call is recorded for each content of the container
DestenCall(t) ==
    /\ ~destenCall.some
    /\ destenCall' = Some([type |-> t, result |-> desten(t, container)])
    /\ UNCHANGED <<container, stenCall, embedded, longest, calls, flipped>>

\* the last bit of one container byte of the frame's payload or checksum
\* changes after a sten call that returned Ok
FlipBit(pos) ==
    /\ embedded.some /\ flipped = 0
    /\ pos > LenFieldBits /\ pos <= 8 * FrameLen(embedded.val)
    /\ container' = [container EXCEPT ![pos] = SetLsb(@, 1 - (@ % 2))]
    /\ flipped' = pos
    /\ destenCall' = None
    /\ UNCHANGED <<stenCall, embedded, longest, calls>>

\* make_test_sten, for every value, target type and container: a container
\* is made, one value is embedded in it, and it is extracted (an extraction
\* of the container as it was made is a run too)
Init == InitWith(InitContainers)
Sten ==
    \/ \E v \in Values : calls = 0 /\ StenCall(v)
    \/ \E v \in OptionValues : calls = 0 /\ StenCall(v)
Desten == \E t \in Types : DestenCall(t)
Next == Sten \/ Desten
Spec == Init /\ [][Next]_vars

\* any run of sten calls on one container, then extractions
SeqInit == InitWith({Filled(len, 13) : len \in CarrierLens \ {31}})
SeqSten == \E v \in SeqValues : calls < MaxCalls /\ StenCall(v)
SeqNext == SeqSten \/ Desten
SeqSpec == SeqInit /\ [][SeqNext]_vars

\* one embed, one flipped bit, then extractions
FlipInit == InitWith({Filled(143, 13)})
Flip == \E pos \in 1..Len(container) : FlipBit(pos)
FlipNext == Sten \/ Flip \/ Desten
FlipSpec == FlipInit /\ [][FlipNext]_vars

(***************************************************************************)
(* Properties                                                              *)
(***************************************************************************)
\* the last sten call returned Ok
StenOk == stenCall.some /\ stenCall.val.result.kind = "Ok"

\* the raw bytes of the value of the last sten call
StenPayload == get_raw_bytes(stenCall.val.type, stenCall.val.val)

\* C1 -- Round trip: when a value v of type Vec<u8>, String or a fixed-width
\* integer type fits the container (its payload length + 8 is at most a
\* eighth of the container length, rounded down), v.sten(container) followed
\* by desten of the same type on that container returns Ok(v), whatever the
\* container held before.
C1_RoundTrip ==
    (/\ stenCall.some
     /\ stenCall.val.type \in BaseTypes
     /\ Len(StenPayload) + 8 <= Len(container) \div 8
     /\ destenCall.some
     /\ destenCall.val.type = stenCall.val.type)
    => /\ destenCall.val.result.kind = "Ok"
       /\ destenCall.val.result.val = stenCall.val.val

\* a negative i64 has been embedded and extracted as an i64
C1_Witness ==
    /\ StenOk
    /\ stenCall.val.type = "i64"
    /\ stenCall.val.val[1] < 0
    /\ destenCall.some
    /\ destenCall.val.type = "i64"
    /\ destenCall.val.result.kind = "Ok"

\* C2 -- Frame layout: after a sten call that returned Ok for a payload p of
\* N bytes, with frame = le32(N + 4) ++ p ++ le32(get_crc(0, p)), the last
\* bit of container byte 8 * j + i is bit i of frame byte j, for every frame
\* byte j and bit i: the length field is N + 4 and the checksum covers p
\* alone.
C2_FrameLayout ==
    StenOk =>
        LET p == StenPayload
            frame == LenToLeBytes(Len(p) + 4) \o p
                     \o U32ToLeBytes(get_crc(U32Zero, p))
        IN  /\ Len(frame) = Len(p) + 8
            /\ \A j \in 0..(Len(p) + 7) : \A i \in 0..7 :
                   container[8 * j + i + 1] % 2 = Bit(frame[j + 1], i)

\* the u32 0x89ABCDEF has been embedded
C2_Witness ==
    /\ StenOk
    /\ stenCall.val.type = "u32"
    /\ stenCall.val.val = <<35243, 52719>>

\* C3 -- Capacity boundary: a sten call on a container of length L with a
\* frame of F = N + 8 bytes returns Ok exactly when F <= L / 8 (rounded
\* down); otherwise it returns PayloadTooLarge(F, L / 8) and leaves every
\* container byte as it was.
C3_Capacity ==
    [][calls' = calls + 1 =>
        LET F == Len(get_raw_bytes(stenCall'.val.type, stenCall'.val.val)) + 8
            M == Len(container) \div 8
            r == stenCall'.val.result
        IN  /\ r.kind = "Ok" <=> F <= M
            /\ F > M => /\ r.kind = "Err"
                        /\ r.err = "PayloadTooLarge"
                        /\ r.actual = F
                        /\ r.max = M
                        /\ container' = container]_vars

\* a frame one byte longer than the container takes has been refused
C3_Witness ==
    /\ stenCall.some
    /\ stenCall.val.result.kind = "Err"
    /\ stenCall.val.result.actual = stenCall.val.result.max + 1
    /\ stenCall.val.result.max > 0

\* C4 -- Untouched bits: a sten call that returns Ok for a frame of F bytes
\* leaves the container length, every bit of the container bytes from
\* 8 * F on, and bits 1..7 of the first 8 * F bytes as they were.
C4_UntouchedBits ==
    [][(calls' = calls + 1 /\ stenCall'.val.result.kind = "Ok") =>
        LET F == Len(get_raw_bytes(stenCall'.val.type, stenCall'.val.val)) + 8
        IN  /\ Len(container') = Len(container)
            /\ \A i \in 1..Len(container) :
                   IF i > 8 * F
                   THEN container'[i] = container[i]
                   ELSE container'[i] \div 2 = container[i] \div 2]_vars

\* a sten call has changed a last bit and the container is longer than the
\* frame's bits
C4_Witness ==
    /\ StenOk
    /\ Len(container) > 8 * FrameLen(stenCall.val)
    /\ container[Len(container)] = 13
    /\ \E i \in 1..(8 * FrameLen(stenCall.val)) : container[i] = 12

\* C5 -- Out-of-range length: desten on a container of length L >= 32 whose
\* length field payload_size has 32 + 8 * payload_size > L returns
\* Err(BadPayload).
C5_OutOfRangeIsBadPayload ==
    (/\ destenCall.some
     /\ Len(container) >= 32
     /\ ~SliceInRange(PayloadSize(container), Len(container)))
    => /\ destenCall.val.result.kind = "Err"
       /\ destenCall.val.result.err = "BadPayload"

\* C6 -- Too-short frame body: desten on a container of length >= 32 whose
\* length field is 0, 1, 2 or 3 returns Err(BadPayload).
C6_ShortBodyIsBadPayload ==
    (/\ destenCall.some
     /\ Len(container) >= 32
     /\ PayloadSize(container) \subseteq {0, 1})
    => /\ destenCall.val.result.kind = "Err"
       /\ destenCall.val.result.err = "BadPayload"

\* C7 -- Checksum sensitivity: after a sten call that returned Ok, with the
\* last bit of one container byte of the payload or checksum flipped, desten
\* returns Err(FailedChecksum), for every target type.
C7_ChecksumSensitivity ==
    (flipped # 0 /\ destenCall.some)
    => /\ destenCall.val.result.kind = "Err"
       /\ destenCall.val.result.err = "FailedChecksum"

\* a bit of the checksum of an embedded String has been flipped and the
\* container has been extracted as a String
C7_Witness ==
    /\ StenOk
    /\ stenCall.val.type = "String"
    /\ flipped > 8 * (FrameLen(stenCall.val) - 4)
    /\ destenCall.some
    /\ destenCall.val.type = "String"

\* C8 -- Optional codec: the empty byte sequence deserializes as the
\* present result "absent" for every Option<T>: desten of Option<T> on a
\* container that holds an empty payload (an embedded None among them)
\* returns Ok(None).
C8_EmptyIsAbsent ==
    (/\ StenOk
     /\ StenPayload = <<>>
     /\ destenCall.some
     /\ destenCall.val.type \in OptionTypes)
    => /\ destenCall.val.result.kind = "Ok"
       /\ ~destenCall.val.result.val.some

\* the digits of a value of the integer type t are in the range of t
InRange(t, ds) ==
    /\ Len(ds) = (IF Width(t) <= 2 THEN 1 ELSE Width(t) \div 2)
    /\ \A j \in 1..Len(ds) :
           IF Signed(t) /\ j = 1
           THEN (IF Width(t) = 1 THEN ds[j] \in -128..127
                 ELSE ds[j] \in -32768..32767)
           ELSE (IF Width(t) = 1 THEN ds[j] \in 0..255 ELSE ds[j] \in 0..65535)

\* C9, as stated -- Fixed-width integer codec: desten of any fixed-width
\* integer type (u8 among them) on a checksum-valid frame whose payload
\* length is not the width of the type returns Err(FailedParsing).
C9_AllIntegers ==
    (/\ StenOk
     /\ destenCall.some
     /\ destenCall.val.type \in IntTypes
     /\ Len(StenPayload) # Width(destenCall.val.type))
    => /\ destenCall.val.result.kind = "Err"
       /\ destenCall.val.result.err = "FailedParsing"

\* C9, amended -- for every fixed-width integer type other than u8 (i8, u16,
\* i16, u32, i32, u64, i64) of width w, desten on a checksum-valid frame
\* returns Err(FailedParsing) when the payload length is not w, and for
\* length w the value of the type whose little-endian bytes are the
\* payload; u8 is absent only for the empty payload and is otherwise the
\* first payload byte.
C9_IntegerCodec ==
    (StenOk /\ destenCall.some /\ destenCall.val.type \in IntTypes)
    => LET t == destenCall.val.type
           p == StenPayload
           r == destenCall.val.result
           failed == r.kind = "Err" /\ r.err = "FailedParsing"
       IN  IF t = "u8"
           THEN IF p = <<>> THEN failed
                ELSE r.kind = "Ok" /\ r.val = <<p[1]>>
           ELSE IF Len(p) # Width(t) THEN failed
                ELSE /\ r.kind = "Ok"
                     /\ InRange(t, r.val)
                     /\ get_raw_bytes(t, r.val) = p

\* the four bytes of a u32 have been extracted as a u16, and failed to parse
C9_Witness ==
    /\ StenOk
    /\ stenCall.val.type = "u32"
    /\ destenCall.some
    /\ destenCall.val.type = "u16"
    /\ destenCall.val.result.kind = "Err"
    /\ destenCall.val.result.err = "FailedParsing"

\* C10 -- Last successful embed wins: after any run of sten calls on one
\* container of which at least one returned Ok, desten of Vec<u8> returns Ok
\* of the payload of the most recent call that returned Ok.
C10_LastEmbedWins ==
    (embedded.some /\ destenCall.some /\ destenCall.val.type = "VecU8")
    => /\ destenCall.val.result.kind = "Ok"
       /\ destenCall.val.result.val
              = get_raw_bytes(embedded.val.type, embedded.val.val)

\* a longer frame was embedded before the last one that was, a call has
\* failed since, and the container has been extracted
C10_Witness ==
    /\ embedded.some
    /\ longest > FrameLen(embedded.val)
    /\ stenCall.val.result.kind = "Err"
    /\ destenCall.some
    /\ destenCall.val.type = "VecU8"
    /\ destenCall.val.result.kind = "Ok"

====
